---- MODULE Spec2Model ----
(***************************************************************************)
(* Model of crates/stream-gears: the upload orchestrator (upload2), the    *)
(* edit operation and the segmented download with its naming hook, with    *)
(* their Python-facing wrappers.                                           *)
(* Option<T> is modelled as a sequence: << >> is None, <<v>> is Some(v).   *)
(***************************************************************************)
EXTENDS Integers, Sequences, FiniteSets, TLC

MaxFiles == 2
MaxChunks == 3
MaxLimit == 2
MaxSegments == 3

Paths == {"a.mp4", "b.mp4"}
Covers == {"", "cover.png"}
Urls == {"https://i0/u1.png", "https://i0/u2.png"}
Bvids == {"BV1xx"}

\* uploader.rs:21-32  the variants of UploadLine
UploadLine == {"Bda2", "Ws", "Qn", "Bldsa", "Tx", "Txa", "Bda"}

\* the lines the prober of the biliup crate can answer with
ProbeLines == {"bda2", "ws", "qn", "bda", "tx", "txa", "bldsa"}

\* Line::default(), the fixed fallback of the prober
DefaultLine == "default"

None == << >>
Some(v) == <<v>>
IsSome(o) == Len(o) = 1
Unwrap(o) == o[1]

SeqsUpTo(S, n) == UNION {[1..k -> S] : k \in 0..n}

\* uploader.rs:44-70  StudioPre as the Python caller fills it (lib.rs:334-356)
UploadArgs ==
    [video_path : SeqsUpTo(Paths, MaxFiles),
     line : {None} \cup {Some(l) : l \in UploadLine},
     limit : 1..MaxLimit,
     title : {"T"},
     tag : {"g"},
     cover : Covers,
     by_app : BOOLEAN]

\* lib.rs:377-384  the arguments of the Python function edit
EditArgs ==
    [title : {None, Some("B")},
     tag : {None, Some("h")},
     cover : {None, Some("new.png")}]

\* lib.rs:45-52  the arguments of download_with_callback; download
\* (lib.rs:34-42) is the same call with no callback
DownloadArgs ==
    [segment : {"Time", "Size"},
     file_name_callback_fn : {None, Some("callback")}]

VARIABLES op, args, pc, bilibili, line, probed, idx, video_file, next_chunk,
          inflight, done_chunks, videos, studio, fetched, cover_url, sent,
          ret, result, log, dl

vars == <<op, args, pc, bilibili, line, probed, idx, video_file, next_chunk,
          inflight, done_chunks, videos, studio, fetched, cover_url, sent,
          ret, result, log, dl>>

\* the download in progress: segments opened, the name each one got, the
\* hook invocations, the errors logged, how the transport ended
NoDownload == [seg |-> 0, names |-> << >>, calls |-> << >>, errors |-> 0,
               transport |-> "open"]

\* one observable step of a run: a stage event or a network request
Ev(e, i, c, l) == [ev |-> e, i |-> i, c |-> c, l |-> l]

NetworkEvents == {"auth", "probe", "pre_upload", "cover_up", "submit",
                  "studio_data", "edit"}

\* anyhow::Error: the root cause and the outermost (displayed) message
Error(root, msg) == [root |-> root, msg |-> msg]

NoStudio == [title |-> "", cover |-> "", tag |-> "", desc |-> "",
             videos |-> << >>]
NoFile == [file_name |-> "", total_size |-> 0]
NoRet == [tag |-> "none", root |-> "", msg |-> "", bvid |-> None]
RetErr(e) == [tag |-> "err", root |-> e.root, msg |-> e.msg, bvid |-> None]
RetOk(b) == [tag |-> "ok", root |-> "", msg |-> "", bvid |-> b]

Init ==
    /\ \/ op = "upload2" /\ args \in UploadArgs
       \/ op = "edit" /\ args \in EditArgs
       \/ op = "download_with_callback" /\ args \in DownloadArgs
    /\ pc = (IF op = "download_with_callback" THEN "download" ELSE "login")
    /\ dl = NoDownload
    /\ bilibili = FALSE
    /\ line = "unset"
    /\ probed = "no"
    /\ idx = 1
    /\ video_file = NoFile
    /\ next_chunk = 1
    /\ inflight = {}
    /\ done_chunks = {}
    /\ videos = << >>
    /\ studio = NoStudio
    /\ fetched = NoStudio
    /\ cover_url = ""
    /\ sent = << >>
    /\ ret = NoRet
    /\ result = NoRet
    /\ log = << >>

\* biliup::uploader::credential::login_by_cookies: the outcomes of loading a
\* cookie file; a file that cannot be read fails before any request is made
LoginOutcomes == {"ok", "io", "rejected"}

LoginError(o) ==
    IF o = "io" THEN [kind |-> "IO", text |-> "No such file or directory"]
    ELSE [kind |-> "Custom", text |-> "invalid credential"]

LoginLog(o) == IF o = "io" THEN << >> ELSE <<Ev("auth", 0, 0, "")>>

AuthFailureUntagged(e) == Error(e.text, e.text)

\* uploader.rs:107-112  only Kind::IO is wrapped in the cookie-file context
AuthFailure(e) ==
    IF e.kind = "IO" THEN Error(e.text, "open cookies file: cookies.json")
    ELSE Error(e.text, e.text)

\* uploader.rs:106-112
Login ==
    /\ op = "upload2" /\ pc = "login"
    /\ \E o \in LoginOutcomes :
        /\ log' = log \o LoginLog(o)
        /\ IF o = "ok"
           THEN /\ bilibili' = TRUE
                /\ pc' = "line"
                /\ ret' = ret
           ELSE /\ bilibili' = bilibili
                /\ pc' = "returned"
                /\ ret' = RetErr(AuthFailure(LoginError(o)))
    /\ UNCHANGED <<dl, op, args, line, probed, idx, video_file, next_chunk,
                   inflight, done_chunks, videos, studio, fetched, cover_url,
                   sent, result>>

\* uploader.rs:117-126  the constructor chosen for an explicit UploadLine
LineOf(l) ==
    CASE l = "Bda2" -> "bda2"
      [] l = "Ws" -> "ws"
      [] l = "Qn" -> "qn"
      [] l = "Bda" -> "bda"
      [] l = "Tx" -> "tx"
      [] l = "Txa" -> "txa"
      [] l = "Bldsa" -> "bldsa"

\* uploader.rs:127  Result::unwrap_or_default on the probe's answer
UnwrapOrDefault(r) == IF r = "err" THEN DefaultLine ELSE r

SelectLinePropagate ==
    /\ op = "upload2" /\ pc = "line"
    /\ IF IsSome(args.line)
       THEN /\ line' = LineOf(Unwrap(args.line))
            /\ pc' = "loop"
            /\ UNCHANGED <<probed, log, ret>>
       ELSE \E r \in ProbeLines \cup {"err"} :
            /\ probed' = (IF r = "err" THEN "err" ELSE "ok")
            /\ line' = (IF r = "err" THEN line ELSE r)
            /\ pc' = (IF r = "err" THEN "returned" ELSE "loop")
            /\ ret' = (IF r = "err"
                       THEN RetErr(Error("probe failed", "probe failed"))
                       ELSE ret)
            /\ log' = Append(log, Ev("probe", 0, 0, ""))
    /\ UNCHANGED <<dl, op, args, bilibili, idx, video_file, next_chunk, inflight,
                   done_chunks, videos, studio, fetched, cover_url, sent,
                   result>>

\* uploader.rs:114-128
SelectLine ==
    /\ op = "upload2" /\ pc = "line"
    /\ IF IsSome(args.line)
       THEN /\ line' = LineOf(Unwrap(args.line))
            /\ UNCHANGED <<probed, log>>
       ELSE \E r \in ProbeLines \cup {"err"} :
            /\ probed' = (IF r = "err" THEN "err" ELSE "ok")
            /\ line' = UnwrapOrDefault(r)
            /\ log' = Append(log, Ev("probe", 0, 0, ""))
    /\ pc' = "loop"
    /\ UNCHANGED <<dl, op, args, bilibili, idx, video_file, next_chunk, inflight,
                   done_chunks, videos, studio, fetched, cover_url, sent, ret,
                   result>>

\* uploader.rs:130  canonicalize fails for a path that does not exist;
\* -1 stands for a missing file, n >= 0 for a file of n chunk-sized units
FileSizes == {-1} \cup 0..MaxChunks

\* biliup::uploader::VideoFile::new: a zero-byte file is refused (EmptyFile)
VideoFileNew(size) == IF size = 0 THEN "EmptyFile" ELSE "ok"

OpenCheckNoCanonicalize(size) ==
    IF VideoFileNew(size) # "ok" THEN VideoFileNew(size) ELSE "ok"

OpenCheckNoNew(size) ==
    IF size = -1 THEN "No such file or directory" ELSE "ok"

\* uploader.rs:130-132  the two `?` that end the operation before pre_upload
OpenCheck(size) ==
    IF size = -1 THEN "No such file or directory"
    ELSE IF VideoFileNew(size) # "ok" THEN VideoFileNew(size)
    ELSE "ok"

\* what the open of a path found: -1 no file, 0 a zero-byte file, 1 data
OpenedAs(size) == IF size > 0 THEN 1 ELSE size

\* uploader.rs:129-134  next path of the loop: canonicalize and VideoFile::new
OpenFile ==
    /\ op = "upload2" /\ pc = "loop" /\ idx <= Len(args.video_path)
    /\ \E size \in FileSizes :
        /\ log' = Append(log, Ev("open", idx, OpenedAs(size), ""))
        /\ IF OpenCheck(size) = "ok"
           THEN /\ video_file' = [file_name |-> args.video_path[idx],
                                  total_size |-> size]
                /\ pc' = "pre_upload"
                /\ ret' = ret
           ELSE /\ video_file' = video_file
                /\ pc' = "returned"
                /\ ret' = RetErr(Error(OpenCheck(size), OpenCheck(size)))
    /\ UNCHANGED <<dl, op, args, bilibili, line, probed, idx, next_chunk,
                   inflight, done_chunks, videos, studio, fetched, cover_url,
                   sent, result>>

\* uploader.rs:135  line.pre_upload(&bilibili, video_file).await?
PreUpload ==
    /\ op = "upload2" /\ pc = "pre_upload"
    /\ log' = Append(log, Ev("pre_upload", idx, 0, line))
    /\ \E ok \in BOOLEAN :
        IF ok
        THEN /\ pc' = "upload"
             /\ next_chunk' = 1
             /\ inflight' = {}
             /\ done_chunks' = {}
             /\ ret' = ret
        ELSE /\ pc' = "returned"
             /\ ret' = RetErr(Error("pre_upload failed", "pre_upload failed"))
             /\ UNCHANGED <<next_chunk, inflight, done_chunks>>
    /\ UNCHANGED <<dl, op, args, bilibili, line, probed, idx, video_file, videos,
                   studio, fetched, cover_url, sent, result>>

UploadLimitPlusOne == args.limit + 1

\* uploader.rs:140  the limit handed to the chunked uploader
UploadLimit == args.limit

\* number of chunks of the file being uploaded
ChunkCount == IF video_file.total_size < 0 THEN 0 ELSE video_file.total_size

\* Chunked uploader (4.3): the next chunk is sent while fewer than `limit`
\* requests are in flight; chunks 1..next_chunk-1 of the current file have
\* been requested
StartChunk ==
    /\ op = "upload2" /\ pc = "upload"
    /\ next_chunk <= ChunkCount
    /\ Cardinality(inflight) < UploadLimit
    /\ inflight' = inflight \cup {next_chunk}
    /\ next_chunk' = next_chunk + 1
    /\ UNCHANGED <<dl, op, args, pc, bilibili, line, probed, idx, video_file,
                   done_chunks, videos, studio, fetched, cover_url, sent, ret,
                   result, log>>

\* Chunked uploader (4.3): a request in flight completes
FinishChunk ==
    /\ op = "upload2" /\ pc = "upload"
    /\ \E c \in inflight :
        /\ inflight' = inflight \ {c}
        /\ done_chunks' = done_chunks \cup {c}
    /\ UNCHANGED <<dl, op, args, pc, bilibili, line, probed, idx, video_file,
                   next_chunk, videos, studio, fetched, cover_url, sent, ret,
                   result, log>>

\* Chunked uploader (4.3) and uploader.rs:147: the first unrecoverable chunk
\* failure drops the remaining requests and ends the operation
FailChunk ==
    /\ op = "upload2" /\ pc = "upload"
    /\ \E c \in inflight :
        /\ inflight' = {}
        /\ pc' = "returned"
        /\ ret' = RetErr(Error("chunk transport failure",
                               "chunk transport failure"))
    /\ UNCHANGED <<dl, op, args, bilibili, line, probed, idx, video_file,
                   next_chunk, done_chunks, videos, studio, fetched,
                   cover_url, sent, result, log>>

\* the UploadedVideoPart returned for the idx-th path
Video(i, vf) == [file_name |-> vf.file_name, src |-> i]

PushFront(vs, v) == <<v>> \o vs

\* uploader.rs:154  videos.push(video)
Push(vs, v) == Append(vs, v)

\* uploader.rs:139-155  upload returned Ok(video): push it, next path
UploadFinish ==
    /\ op = "upload2" /\ pc = "upload"
    /\ next_chunk > ChunkCount /\ inflight = {}
    /\ videos' = Push(videos, Video(idx, video_file))
    /\ log' = Append(log, Ev("uploaded", idx, 0, line))
    /\ idx' = idx + 1
    /\ pc' = "loop"
    /\ UNCHANGED <<dl, op, args, bilibili, line, probed, video_file, next_chunk,
                   inflight, done_chunks, studio, fetched, cover_url, sent,
                   ret, result>>

\* uploader.rs:166-185  Studio::builder() ... .build()
BuildStudioRecord(a, vs) ==
    [title |-> a.title, cover |-> a.cover, tag |-> a.tag, desc |-> "",
     videos |-> vs]

NeedsCoverAlways(s) == TRUE

\* uploader.rs:187  the cover is resolved only when it is non-empty
NeedsCover(s) == s.cover # ""

SetCoverKeep(s, url) == s

\* uploader.rs:195  studio.cover = url
SetCover(s, url) == [s EXCEPT !.cover = url]

\* uploader.rs:157-187  after the last path: assemble the record
BuildStudio ==
    /\ op = "upload2" /\ pc = "loop" /\ idx > Len(args.video_path)
    /\ studio' = BuildStudioRecord(args, videos)
    /\ pc' = IF NeedsCover(studio') THEN "cover" ELSE "submit"
    /\ UNCHANGED <<dl, op, args, bilibili, line, probed, idx, video_file,
                   next_chunk, inflight, done_chunks, videos, fetched,
                   cover_url, sent, ret, result, log>>

\* uploader.rs:188-196  read the cover, upload it, keep the returned URL
ResolveCover ==
    /\ op = "upload2" /\ pc = "cover"
    /\ \/ /\ log' = Append(log, Ev("cover_read", 0, 0, ""))
          /\ pc' = "returned"
          /\ ret' = RetErr(Error("No such file or directory",
                                 "cover: cover.png"))
          /\ UNCHANGED <<studio, cover_url>>
       \/ /\ log' = log \o <<Ev("cover_read", 0, 0, ""),
                             Ev("cover_up", 0, 0, "")>>
          /\ pc' = "returned"
          /\ ret' = RetErr(Error("cover_up failed", "cover_up failed"))
          /\ UNCHANGED <<studio, cover_url>>
       \/ \E url \in Urls :
          /\ log' = log \o <<Ev("cover_read", 0, 0, ""),
                             Ev("cover_up", 0, 0, "")>>
          /\ cover_url' = url
          /\ studio' = SetCover(studio, url)
          /\ pc' = "submit"
          /\ ret' = ret
    /\ UNCHANGED <<dl, op, args, bilibili, line, probed, idx, video_file,
                   next_chunk, inflight, done_chunks, videos, fetched, sent,
                   result>>

\* uploader.rs:198-201  exactly one of the two submission modes
SubmitMode(by_app) == IF by_app THEN "submit_by_app" ELSE "submit"

\* uploader.rs:198-203
Submit ==
    /\ op = "upload2" /\ pc = "submit"
    /\ log' = Append(log, Ev("submit", 0, 0, SubmitMode(args.by_app)))
    /\ sent' = Append(sent, studio)
    /\ \/ ret' = RetErr(Error("submit failed", "submit failed"))
       \/ \E b \in {None} \cup {Some(v) : v \in Bvids} : ret' = RetOk(b)
    /\ pc' = "returned"
    /\ UNCHANGED <<dl, op, args, bilibili, line, probed, idx, video_file,
                   next_chunk, inflight, done_chunks, videos, studio, fetched,
                   cover_url, result>>

\* lib.rs:435-437  "{root_cause}, {err}" in a PyRuntimeError
pyerr_from_anyhow(e) ==
    [tag |-> "PyRuntimeError", root |-> e.root, msg |-> e.msg, bvid |-> None]

\* lib.rs:358-361  Ok -> the bvid of the response (unwrap), Err -> PyErr
PyUpload2Result(r) ==
    IF r.tag = "err" THEN pyerr_from_anyhow(r)
    ELSE IF IsSome(r.bvid) THEN RetOk(r.bvid)
    ELSE [tag |-> "panic", root |-> "", msg |-> "", bvid |-> None]

\* lib.rs:306-363
PyUpload2 ==
    /\ op = "upload2" /\ pc = "returned"
    /\ result' = PyUpload2Result(ret)
    /\ pc' = "done"
    /\ UNCHANGED <<dl, op, args, bilibili, line, probed, idx, video_file,
                   next_chunk, inflight, done_chunks, videos, studio, fetched,
                   cover_url, sent, ret, log>>

EditCallSwapped(a) == [title |-> a.title, cover |-> a.tag, tag |-> a.cover]

\* lib.rs:386-392  the Python arguments (title, tag, cover) as handed to
\* uploader::edit(cookie_file, bvid, title, cover, tag)
EditCall(a) == [title |-> a.title, cover |-> a.cover, tag |-> a.tag]

\* the records the server can answer studio_data with
FetchedStudios ==
    [title : {"A"}, cover : {"", "https://i0/old.png"}, tag : {"t"},
     desc : {"d"}, videos : {<<[file_name |-> "a.mp4", src |-> 1]>>}]

\* uploader.rs:219  login_by_cookies(&cookie_file).await?
EditLogin ==
    /\ op = "edit" /\ pc = "login"
    /\ \E o \in LoginOutcomes :
        /\ log' = log \o LoginLog(o)
        /\ IF o = "ok"
           THEN /\ bilibili' = TRUE
                /\ pc' = "e_fetch"
                /\ ret' = ret
           ELSE /\ bilibili' = bilibili
                /\ pc' = "returned"
                /\ ret' = RetErr(Error(LoginError(o).text, LoginError(o).text))
    /\ UNCHANGED <<dl, op, args, line, probed, idx, video_file, next_chunk,
                   inflight, done_chunks, videos, studio, fetched, cover_url,
                   sent, result>>

\* uploader.rs:222-224
ApplyTitle(s, title) ==
    IF IsSome(title) THEN [s EXCEPT !.title = Unwrap(title)] ELSE s

\* uploader.rs:232-234
ApplyTag(s, tag) ==
    IF IsSome(tag) THEN [s EXCEPT !.tag = Unwrap(tag)] ELSE s

\* uploader.rs:229
ApplyCover(s, url) == [s EXCEPT !.cover = url]

\* uploader.rs:220-224  studio_data, then the title override
EditFetch ==
    /\ op = "edit" /\ pc = "e_fetch"
    /\ log' = Append(log, Ev("studio_data", 0, 0, ""))
    /\ \/ /\ pc' = "returned"
          /\ ret' = RetErr(Error("studio_data failed", "studio_data failed"))
          /\ UNCHANGED <<studio, fetched>>
       \/ \E s \in FetchedStudios :
          /\ fetched' = s
          /\ studio' = ApplyTitle(s, EditCall(args).title)
          /\ pc' = "e_cover"
          /\ ret' = ret
    /\ UNCHANGED <<dl, op, args, bilibili, line, probed, idx, video_file,
                   next_chunk, inflight, done_chunks, videos, cover_url, sent,
                   result>>

\* uploader.rs:226-230  a supplied cover is read and uploaded
EditCover ==
    /\ op = "edit" /\ pc = "e_cover"
    /\ IF IsSome(EditCall(args).cover)
       THEN \/ /\ log' = Append(log, Ev("cover_read", 0, 0, ""))
               /\ pc' = "returned"
               /\ ret' = RetErr(Error("No such file or directory",
                                      "No such file or directory"))
               /\ UNCHANGED <<studio, cover_url>>
            \/ /\ log' = log \o <<Ev("cover_read", 0, 0, ""),
                                  Ev("cover_up", 0, 0, "")>>
               /\ pc' = "returned"
               /\ ret' = RetErr(Error("cover_up failed", "cover_up failed"))
               /\ UNCHANGED <<studio, cover_url>>
            \/ \E url \in Urls :
               /\ log' = log \o <<Ev("cover_read", 0, 0, ""),
                                  Ev("cover_up", 0, 0, "")>>
               /\ cover_url' = url
               /\ studio' = ApplyCover(studio, url)
               /\ pc' = "e_submit"
               /\ ret' = ret
       ELSE /\ pc' = "e_submit"
            /\ UNCHANGED <<studio, cover_url, ret, log>>
    /\ UNCHANGED <<dl, op, args, bilibili, line, probed, idx, video_file,
                   next_chunk, inflight, done_chunks, videos, fetched, sent,
                   result>>

\* uploader.rs:238-242  a non-zero response code is a failure
EditResponse(code) ==
    IF code # 0 THEN RetErr(Error("Edit failed", "Edit failed"))
    ELSE RetOk(None)

\* uploader.rs:232-242  the tag override, the edit request, the code check
EditSubmit ==
    /\ op = "edit" /\ pc = "e_submit"
    /\ studio' = ApplyTag(studio, EditCall(args).tag)
    /\ sent' = Append(sent, studio')
    /\ log' = Append(log, Ev("edit", 0, 0, ""))
    /\ \/ ret' = RetErr(Error("edit request failed", "edit request failed"))
       \/ \E code \in {0, -400} : ret' = EditResponse(code)
    /\ pc' = "returned"
    /\ UNCHANGED <<dl, op, args, bilibili, line, probed, idx, video_file,
                   next_chunk, inflight, done_chunks, videos, fetched,
                   cover_url, result>>

\* lib.rs:394-397
PyEditResult(r) == IF r.tag = "err" THEN pyerr_from_anyhow(r) ELSE RetOk(None)

\* lib.rs:376-399
PyEdit ==
    /\ op = "edit" /\ pc = "returned"
    /\ result' = PyEditResult(ret)
    /\ pc' = "done"
    /\ UNCHANGED <<dl, op, args, bilibili, line, probed, idx, video_file,
                   next_chunk, inflight, done_chunks, videos, studio, fetched,
                   cover_url, sent, ret, log>>

\* the name the downloader proposes for its k-th segment
ProposedName(k) == [base |-> "out", n |-> k]

\* a name a Python callback may return
CustomName == [base |-> "custom", n |-> 0]

\* what the Python callable does when called: returns None, returns a
\* name, or raises
HookOutcomes == {"none", "name", "raise"}

FileNameHookUnwrap(o) ==
    [override |-> None, logged |-> FALSE, abort |-> (o = "raise")]

\* lib.rs:79-88  the closure handed to the downloader: Ok(_) is dropped,
\* Err is logged with tracing::error!, and the closure returns ()
FileNameHook(o) ==
    [override |-> None, logged |-> (o = "raise"), abort |-> FALSE]

\* Download orchestrator (4.5): a new segment begins; the hook, when there
\* is one, is called with the proposed name
DownloadSegment ==
    /\ op = "download_with_callback" /\ pc = "download"
    /\ dl.seg < MaxSegments
    /\ LET k == dl.seg + 1
           name == ProposedName(k)
       IN IF IsSome(args.file_name_callback_fn)
          THEN \E o \in HookOutcomes :
               LET h == FileNameHook(o)
               IN /\ dl' = [dl EXCEPT
                        !.seg = k,
                        !.names = Append(@, IF IsSome(h.override)
                                            THEN Unwrap(h.override)
                                            ELSE name),
                        !.calls = Append(@, [arg |-> name, outcome |-> o]),
                        !.errors = @ + (IF h.logged THEN 1 ELSE 0)]
                  /\ pc' = (IF h.abort THEN "returned" ELSE pc)
                  /\ ret' = (IF h.abort
                             THEN RetErr(Error("callback failed",
                                               "callback failed"))
                             ELSE ret)
          ELSE /\ dl' = [dl EXCEPT !.seg = k, !.names = Append(@, name)]
               /\ UNCHANGED <<pc, ret>>
    /\ UNCHANGED <<op, args, bilibili, line, probed, idx, video_file,
                   next_chunk, inflight, done_chunks, videos, studio, fetched,
                   cover_url, sent, result, log>>

\* Download orchestrator (4.5): the source signals completion, or the
\* transport fails
DownloadEnd ==
    /\ op = "download_with_callback" /\ pc = "download"
    /\ \E t \in {"ok", "err"} :
        /\ dl' = [dl EXCEPT !.transport = t]
        /\ ret' = (IF t = "ok" THEN RetOk(None)
                   ELSE RetErr(Error("connection reset", "download failed")))
    /\ pc' = "returned"
    /\ UNCHANGED <<op, args, bilibili, line, probed, idx, video_file,
                   next_chunk, inflight, done_chunks, videos, studio, fetched,
                   cover_url, sent, result, log>>

\* lib.rs:92-99  Ok(res) => Ok(res), Err => PyRuntimeError("{root}, {err}")
PyDownloadResult(r) ==
    IF r.tag = "err"
    THEN [tag |-> "PyRuntimeError", root |-> r.root, msg |-> r.msg,
          bvid |-> None]
    ELSE RetOk(None)

\* lib.rs:44-102
PyDownload ==
    /\ op = "download_with_callback" /\ pc = "returned"
    /\ result' = PyDownloadResult(ret)
    /\ pc' = "done"
    /\ UNCHANGED <<dl, op, args, bilibili, line, probed, idx, video_file,
                   next_chunk, inflight, done_chunks, videos, studio, fetched,
                   cover_url, sent, ret, log>>

Next ==
    \/ Login
    \/ SelectLine
    \/ OpenFile
    \/ PreUpload
    \/ StartChunk
    \/ FinishChunk
    \/ FailChunk
    \/ UploadFinish
    \/ BuildStudio
    \/ ResolveCover
    \/ Submit
    \/ PyUpload2
    \/ EditLogin
    \/ EditFetch
    \/ EditCover
    \/ EditSubmit
    \/ PyEdit
    \/ DownloadSegment
    \/ DownloadEnd
    \/ PyDownload

Spec == Init /\ [][Next]_vars

(***************************************************************************)
(* Properties                                                              *)
(***************************************************************************)
Has(e) == \E k \in DOMAIN log : log[k].ev = e
Count(e) == Cardinality({k \in DOMAIN log : log[k].ev = e})
FileEvents == {"open", "pre_upload", "uploaded"}

Rank(e) ==
    CASE e.ev = "auth" -> 1
      [] e.ev = "probe" -> 2
      [] e.ev \in FileEvents -> 3
      [] e.ev \in {"cover_read", "cover_up"} -> 4
      [] e.ev = "submit" -> 5
      [] OTHER -> 0

FileStep(e) ==
    CASE e.ev = "open" -> 1
      [] e.ev = "pre_upload" -> 2
      [] e.ev = "uploaded" -> 3
      [] OTHER -> 0

\* C1: in every run of upload2 the stages occur in the order authenticate,
\* select line, upload each file, resolve cover (only for a non-empty cover),
\* submit; no stage is repeated; no file upload starts before authentication
\* succeeded and a line was selected; file i+1 starts only after file i has
\* finished; at most one submission, only after every file and the cover.
C1_StageOrder ==
    op = "upload2" =>
      /\ \A j, k \in DOMAIN log : j < k =>
            /\ Rank(log[j]) <= Rank(log[k])
            /\ log[j] # log[k]
            /\ (Rank(log[j]) = 3 /\ Rank(log[k]) = 3) =>
                  \/ log[j].i < log[k].i
                  \/ log[j].i = log[k].i /\ FileStep(log[j]) <= FileStep(log[k])
      /\ \A k \in DOMAIN log : (Rank(log[k]) = 3 /\ log[k].i > 1) =>
            \E m \in 1..(k - 1) :
                log[m].ev = "uploaded" /\ log[m].i = log[k].i - 1
      /\ (\E k \in DOMAIN log : Rank(log[k]) >= 3) =>
            bilibili /\ Has("auth") /\ line # "unset"
      /\ pc = "upload" =>
            /\ log[Len(log)] = Ev("pre_upload", idx, 0, line)
            /\ inflight \cup done_chunks = 1..(next_chunk - 1)
            /\ next_chunk - 1 <= ChunkCount
      /\ inflight # {} => pc = "upload"
      /\ (log # << >> /\ log[Len(log)].ev = "uploaded") =>
            /\ inflight = {}
            /\ done_chunks = 1..ChunkCount
      /\ Count("submit") <= 1 /\ Len(sent) = Count("submit")
      /\ Has("submit") =>
            /\ \A i \in 1..Len(args.video_path) :
                  \E m \in DOMAIN log : log[m].ev = "uploaded" /\ log[m].i = i
            /\ (args.cover # "") <=> Has("cover_up")
      /\ (args.cover = "") => ~Has("cover_read")

C1_Witness ==
    /\ op = "upload2" /\ pc = "done" /\ result.tag = "ok"
    /\ Len(args.video_path) = 2 /\ args.cover # ""
    /\ Has("probe") /\ Has("cover_up") /\ Has("submit")

\* the stage that an error value of upload2 comes from
ErrStage(r) ==
    CASE r.root = "No such file or directory"
           /\ r.msg = "open cookies file: cookies.json" -> "login_io"
      [] r.root = "invalid credential" -> "auth"
      [] r.root = "No such file or directory"
           /\ r.msg = "No such file or directory" -> "open"
      [] r.root = "EmptyFile" -> "open"
      [] r.root = "pre_upload failed" -> "pre_upload"
      [] r.root = "chunk transport failure" -> "chunk"
      [] r.root = "No such file or directory"
           /\ r.msg = "cover: cover.png" -> "cover_read"
      [] r.root = "cover_up failed" -> "cover_up"
      [] r.root = "submit failed" -> "submit"
      [] OTHER -> "?"

\* C2: when a stage of upload2 fails the operation ends with an error and no
\* later stage runs: the failing stage is the last thing that happened, a
\* failure before submission leaves nothing submitted, a file that cannot be
\* opened always ends the operation, and the caller gets an error and no
\* identifier.
C2_AbortOnFailure ==
    op = "upload2" =>
      /\ (\E k \in DOMAIN log : log[k].ev = "open" /\ log[k].c <= 0) =>
            ret.tag = "err"
      /\ ret.tag = "err" =>
            /\ pc \in {"returned", "done"}
            /\ inflight = {}
            /\ IF ErrStage(ret) = "login_io" THEN log = << >>
               ELSE /\ log # << >>
                    /\ log[Len(log)].ev =
                          (IF ErrStage(ret) = "chunk" THEN "pre_upload"
                           ELSE ErrStage(ret))
            /\ ErrStage(ret) # "submit" => sent = << >> /\ ~Has("submit")
            /\ ErrStage(ret) \in {"open", "pre_upload", "chunk"} =>
                  /\ ~Has("cover_read")
                  /\ log[Len(log)].i = idx
                  /\ Len(videos) = idx - 1
                  /\ \A k \in DOMAIN log : log[k].i <= idx
            /\ result.tag # "ok" /\ result.bvid = None
            /\ pc = "done" => result.tag = "PyRuntimeError"

C2_Witness ==
    /\ op = "upload2" /\ pc = "done" /\ result.tag = "PyRuntimeError"
    /\ ErrStage(ret) = "chunk" /\ idx = 1 /\ Len(args.video_path) = 2
    /\ args.cover # ""

\* C3: when upload2 reaches submission with N >= 1 input files, the submitted
\* record has exactly N videos and the i-th one is the part produced from the
\* i-th path.
C3_VideosInOrder ==
    (op = "upload2" /\ Len(args.video_path) >= 1) =>
      \A k \in DOMAIN sent :
        /\ Len(sent[k].videos) = Len(args.video_path)
        /\ \A i \in 1..Len(args.video_path) :
              /\ sent[k].videos[i].src = i
              /\ sent[k].videos[i].file_name = args.video_path[i]

C3_Witness ==
    /\ op = "upload2" /\ Len(sent) = 1 /\ Len(args.video_path) = 2
    /\ args.video_path[1] # args.video_path[2]
    /\ Len(sent[1].videos) = 2

\* C4: during the upload of a file never more than `limit` chunk uploads are
\* in flight, `limit` being the caller's value, and only that value holds
\* the next chunk back.
C4_InFlightBound ==
    op = "upload2" =>
      /\ Cardinality(inflight) <= args.limit
      /\ (pc = "upload" /\ next_chunk <= ChunkCount
            /\ Cardinality(inflight) < args.limit) => ENABLED StartChunk

C4_Witness ==
    /\ op = "upload2" /\ pc = "upload"
    /\ args.limit = 2
    /\ Cardinality(inflight) = args.limit
    /\ next_chunk <= ChunkCount

ZeroByteAt(k) == log[k].ev = "open" /\ log[k].c = 0

\* C5 as stated: once a zero-byte file is rejected, no network request of
\* any kind has been issued before the rejection.
C5_NoNetworkBeforeRejection ==
    op = "upload2" =>
      \A k \in DOMAIN log : ZeroByteAt(k) =>
        \A j \in 1..(k - 1) : log[j].ev \notin NetworkEvents

\* C5 (amended): a zero-byte file is rejected before any request is made for
\* that file and ends the operation: authentication (and the probe and the
\* earlier files) came before, nothing comes after, nothing is submitted.
C5_RejectedBeforeOwnRequests ==
    op = "upload2" =>
      \A k \in DOMAIN log : ZeroByteAt(k) =>
        /\ k = Len(log)
        /\ log[1].ev = "auth"
        /\ \A j \in DOMAIN log :
              log[j].ev \in NetworkEvents \ {"auth", "probe"} =>
                 log[j].i < log[k].i
        /\ ret.tag = "err" /\ ret.root = "EmptyFile"
        /\ sent = << >>
        /\ result.tag \in {"none", "PyRuntimeError"}

C5_Witness ==
    /\ op = "upload2" /\ pc = "done" /\ ret.root = "EmptyFile"
    /\ idx = 2 /\ Has("uploaded") /\ Has("probe")

\* C6: every record upload2 submits has a non-empty video list, also when
\* the caller's list of paths is empty.
C6_NonEmptyVideos ==
    op = "upload2" => \A k \in DOMAIN sent : Len(sent[k].videos) >= 1

\* C7: at submission the cover is empty or the URL the cover upload
\* returned, never the caller's reference: a non-empty reference is read,
\* uploaded and replaced before the submission, a failure of either aborts
\* without submitting, an empty reference is neither read nor uploaded.
C7_CoverResolved ==
    op = "upload2" =>
      /\ \A k \in DOMAIN sent :
            IF args.cover = ""
            THEN sent[k].cover = "" /\ ~Has("cover_read") /\ ~Has("cover_up")
            ELSE /\ sent[k].cover = cover_url
                 /\ cover_url \in Urls
                 /\ sent[k].cover # args.cover
                 /\ \E a, b, c \in DOMAIN log :
                       /\ a < b /\ b < c
                       /\ log[a].ev = "cover_read"
                       /\ log[b].ev = "cover_up"
                       /\ log[c].ev = "submit"
      /\ (ret.tag = "err" /\ ErrStage(ret) \in {"cover_read", "cover_up"})
            => sent = << >>
      /\ (pc = "submit" /\ args.cover # "") => studio.cover = cover_url

C7_Witness ==
    /\ op = "upload2" /\ Len(sent) = 1 /\ args.cover = "cover.png"
    /\ sent[1].cover \in Urls

\* the line each UploadLine names
NamedLine ==
    [Bda2 |-> "bda2", Ws |-> "ws", Qn |-> "qn", Bldsa |-> "bldsa",
     Tx |-> "tx", Txa |-> "txa", Bda |-> "bda"]

\* C8: line selection never fails upload2: with an explicit line no probe
\* runs and every file uses the named line; without one the probe runs once
\* and an error of it selects the default line, and the operation goes on
\* to the files.
C8_LineSelection ==
    op = "upload2" =>
      /\ IsSome(args.line) =>
            /\ ~Has("probe") /\ probed = "no"
            /\ line \in {"unset", NamedLine[Unwrap(args.line)]}
            /\ \A k \in DOMAIN log : log[k].ev \in {"pre_upload", "uploaded"} =>
                  log[k].l = NamedLine[Unwrap(args.line)]
      /\ ~IsSome(args.line) =>
            /\ Count("probe") <= 1
            /\ probed = "err" => line = DefaultLine
            /\ \A k \in DOMAIN log : log[k].ev \in {"pre_upload", "uploaded"} =>
                  log[k].l = line
      /\ (pc = "loop" /\ idx = 1) =>
            /\ line # "unset" /\ ret.tag = "none"
            /\ IsSome(args.line) \/ (Has("probe") /\ probed # "no")
      /\ (log # << >> /\ log[Len(log)].ev = "probe") =>
            pc \in {"loop", "cover", "submit"} /\ ret.tag = "none"

C8_Witness ==
    /\ op = "upload2" /\ args.line = None /\ probed = "err"
    /\ line = DefaultLine /\ Has("uploaded")

\* the authentication step of upload2 failed
AuthFailed == op = "upload2" /\ ~bilibili /\ ret.tag = "err"

CookieContext == "open cookies file: cookies.json"

C10_EditFrame ==
    op = "edit" =>
      /\ Len(sent) <= 1
      /\ \A k \in DOMAIN sent :
            /\ sent[k].title = (IF IsSome(args.title) THEN Unwrap(args.title)
                                ELSE fetched.title)
            /\ sent[k].tag = (IF IsSome(args.tag) THEN Unwrap(args.tag)
                              ELSE fetched.tag)
            /\ sent[k].cover = (IF IsSome(args.cover) THEN cover_url
                                ELSE fetched.cover)
            /\ IsSome(args.cover) => cover_url \in Urls
            /\ sent[k].desc = fetched.desc
            /\ sent[k].videos = fetched.videos

C10_Witness ==
    /\ op = "edit" /\ Len(sent) = 1
    /\ args.title = Some("B") /\ args.tag = None /\ args.cover = None
    /\ fetched.title = "A" /\ fetched.cover # ""
    /\ sent[1].title = "B" /\ sent[1].tag = "t"
    /\ sent[1].cover = fetched.cover

Raised == {k \in DOMAIN dl.calls : dl.calls[k].outcome = "raise"}

====
